---- MODULE Spec2Model ----
(***************************************************************************)
(* TimestampDiff (elements/analysis/timestampdiff.cc): the element that    *)
(* measures, per packet, the time elapsed since RecordTimestamp saw it,    *)
(* stores (delay, tc) samples in _delays under the atomic counter _nd and  *)
(* answers statistical read handlers over the stored samples.              *)
(*                                                                         *)
(* 64-bit quantities (the packet number i, the value of diff.nsecval() or  *)
(* diff.usecval()) are records [hi, lo] standing for hi * 2^32 + lo; the   *)
(* inputs are drawn with lo < 2^31, so the cast to uint32_t is the lo part *)
(* and every 32-bit product of the model stays below 2^31.                 *)
(***************************************************************************)
EXTENDS Integers, Sequences, FiniteSets, TLC

\* ------------------------------------------------------------- bounds
MaxThreads == 2      \* worker threads that may pass packets through the element
MaxNd == 3           \* ingestion stops claiming once _nd has reached MaxNd
Capacity == 2        \* the value of N in the bounded configurations

\* --------------------------------------------------- program constants
USEC_PER_MSEC == 1000          \* _nano ? 1000000 : 1000
NSEC_PER_MSEC == 1000000
DEFAULT_TC_MASK == 255         \* TC_MASK default 0xff
TC_OFFSET_OFF == -1            \* TC_OFFSET default -1
UINT_MAX == 2147483647         \* the sentinel `min` starts from (stands for 2^32-1;
                               \* no stored delay of the model reaches it)

\* ------------------------------------------------------------- inputs
Threads == 1..MaxThreads
Limits == {0, Capacity}                       \* N absent (0) or set
MaxDelays == {1}                              \* MAXDELAY, in ms
Samples == {1, 3}                             \* SAMPLE
TcOffsets == {TC_OFFSET_OFF, 0}               \* TC_OFFSET
TcMasks == {DEFAULT_TC_MASK, 1}               \* TC_MASK
TagBytes == {3}                               \* p->data()[_tc_offset]
\* packet numbers: 0, 1, 3 and 2^32
Numbers == {[hi |-> 0, lo |-> 0], [hi |-> 0, lo |-> 1], [hi |-> 0, lo |-> 3],
            [hi |-> 1, lo |-> 0]}
\* values of diff.nsecval() / diff.usecval(): 5, 1001, 1000001 and 2^32 + 5
Elapsed == {[hi |-> 0, lo |-> 5], [hi |-> 0, lo |-> 1001],
            [hi |-> 0, lo |-> 1000001], [hi |-> 1, lo |-> 5]}

VARIABLES
    phase,          \* "constructed", "configured", "running"; "config_error" and
                    \* "init_error" once configure() or initialize() has failed
    _limit, _nano, _sample, _max_delay_ms, _tc_offset, _tc_mask,
    weight,         \* get_passing_threads().weight()
    _nd,            \* the atomic next-index counter
    _delays,        \* the vector of [delay, tc]
    oob,            \* indices at which _delays[next_index] was written past size()
    pc,             \* per thread: "idle" or "write" (between fetch_and_add and the store)
    local,          \* per thread: smaction's locals next_index, usec, tc
    rec,            \* history: index -> the sample the ingestion that claimed it wrote
    claimed,        \* history: index -> how many fetch_and_add calls returned it
    ev,             \* history: the last step of the ingestion path
    result          \* the last read handler call: its name, return code and data

conf == <<_limit, _nano, _sample, _max_delay_ms, _tc_offset, _tc_mask>>
store == <<_nd, _delays, oob>>
hist == <<rec, claimed, ev>>
vars == <<phase, conf, weight, store, pc, local, hist, result>>

\* ------------------------------------------------------------ helpers
Sample(d, t) == [delay |-> d, tc |-> t]
NoSample == [w |-> FALSE, delay |-> 0, tc |-> 0]
NoResult == [opt |-> "none", ret |-> 0, kind |-> "none", num |-> 0, den |-> 1, text |-> <<>>,
             begin |-> 0, perc |-> 0, tc |-> -1, data |-> <<>>]
NoEvent == [op |-> "none", outcome |-> "none", port |-> 0,
            multiple |-> TRUE, exceeds |-> FALSE]

\* (uint32_t) x of a 64-bit x
Trunc32(x) == x.lo

\* x % k computed on the whole 64-bit value (2^32 = 65536 * 65536)
Mod64(x, k) == ((x.hi % k) * (((65536 % k) * (65536 % k)) % k) + (x.lo % k)) % k

RECURSIVE BitAnd(_, _)
BitAnd(a, b) ==
    IF a = 0 \/ b = 0 THEN 0
    ELSE (IF a % 2 = 1 /\ b % 2 = 1 THEN 1 ELSE 0) + 2 * BitAnd(a \div 2, b \div 2)

\* ------------------------------------------------------ configuration
\* configure(): RECORDER must cast to RecordTimestamp; N > 0 preallocates _delays.
\* The arguments are the sets SAMPLE, TC_OFFSET and TC_MASK are drawn from.
ConfigureWith(Ss, Os, Ms) ==
    /\ phase = "constructed"
    /\ \E valid \in BOOLEAN, n \in Limits, md \in MaxDelays, nano \in BOOLEAN,
          s \in Ss, off \in Os, mask \in Ms :
        IF ~valid
        THEN /\ phase' = "config_error"
             /\ UNCHANGED <<conf, weight, store, pc, local, hist, result>>
        ELSE /\ phase' = "configured"
             /\ _limit' = n
             /\ _max_delay_ms' = md
             /\ _nano' = nano
             /\ _sample' = s
             /\ _tc_offset' = off
             /\ _tc_mask' = mask
             /\ _delays' = [k \in 1..n |-> Sample(0, 0)]
             /\ UNCHANGED <<weight, _nd, oob, pc, local, hist, result>>

Configure == ConfigureWith(Samples, TcOffsets, TcMasks)
\* configure() with SAMPLE, TC_OFFSET and TC_MASK left at their defaults
ConfigureDefaults == ConfigureWith({1}, {TC_OFFSET_OFF}, {DEFAULT_TC_MASK})

InitializeFailsInverted(w, limit) == w > 1 /\ limit # 0

\* initialize(): the condition under which it returns errh->error(...)
InitializeFails(w, limit) == w > 1 /\ limit = 0

Initialize ==
    /\ phase = "configured"
    /\ \E w \in Threads :
        /\ weight' = w
        /\ phase' = IF InitializeFails(w, _limit) THEN "init_error" ELSE "running"
    /\ UNCHANGED <<conf, store, pc, local, hist, result>>

\* ---------------------------------------------------------- ingestion
MaxDelayInUnit == _max_delay_ms * (IF _nano THEN NSEC_PER_MSEC ELSE USEC_PER_MSEC)

\* the elapsed time itself (not its 32-bit cast) exceeds MAXDELAY
Exceeds(val) == val.hi > 0 \/ val.lo > MaxDelayInUnit

\* smaction(): which of its four paths a packet takes
Smaction(present, i, val) ==
    IF ~present THEN "absent"
    ELSE IF _sample # 1 /\ Trunc32(i) % _sample # 0 THEN "skip"
    ELSE IF Trunc32(val) > MaxDelayInUnit THEN "outlier"
    ELSE "store"

SmactionReturnZero(outcome) == 0

\* smaction()'s return value, the port handed to checked_output_push
SmactionReturn(outcome) == IF outcome = "absent" THEN 1 ELSE 0

FetchAndAddLost(v) == [ret |-> v, new |-> v]
FetchAndAddSkip(v) == [ret |-> v, new |-> v + 2]
FetchAndAddCapped(v) ==
    [ret |-> IF _limit # 0 /\ v >= _limit THEN _limit - 1 ELSE v, new |-> v + 1]

\* _nd.fetch_and_add(1)
FetchAndAdd(v) == [ret |-> v, new |-> v + 1]

Tc(byte) == IF _tc_offset >= 0 THEN BitAnd(byte, _tc_mask) ELSE 0

\* push() of a packet that takes one of the three paths that store nothing
PushPass(t) ==
    /\ phase = "running" /\ t <= weight /\ pc[t] = "idle"
    /\ \E present \in BOOLEAN, i \in Numbers, val \in Elapsed :
        LET o == Smaction(present, i, val) IN
        /\ o # "store"
        /\ ev' = [op |-> "output", outcome |-> o, port |-> SmactionReturn(o),
                  multiple |-> IF o = "absent" THEN TRUE ELSE Mod64(i, _sample) = 0,
                  exceeds |-> IF o = "outlier" THEN Exceeds(val) ELSE FALSE]
    /\ UNCHANGED <<phase, conf, weight, store, pc, local, rec, claimed, result>>

\* push() up to and including _nd.fetch_and_add(1) and the read of the class byte
PushClaim(t) ==
    /\ phase = "running" /\ t <= weight /\ pc[t] = "idle"
    /\ _nd < MaxNd
    /\ \E i \in Numbers, val \in Elapsed, byte \in TagBytes :
        LET fa == FetchAndAdd(_nd) IN
        /\ Smaction(TRUE, i, val) = "store"
        /\ _nd' = fa.new
        /\ local' = [local EXCEPT ![t] =
                        [next_index |-> fa.ret, usec |-> Trunc32(val), tc |-> Tc(byte)]]
        /\ claimed' = [claimed EXCEPT ![fa.ret] = @ + 1]
        /\ ev' = [op |-> "claim", outcome |-> "store", port |-> 0,
                  multiple |-> Mod64(i, _sample) = 0, exceeds |-> Exceeds(val)]
    /\ pc' = [pc EXCEPT ![t] = "write"]
    /\ UNCHANGED <<phase, conf, weight, _delays, oob, rec, result>>

\* the store of the sample, then return 0 and checked_output_push(0, p)
Write(t) ==
    /\ pc[t] = "write"
    /\ LET k == local[t].next_index
           s == Sample(local[t].usec, local[t].tc) IN
        /\ IF _limit # 0
           THEN IF k < Len(_delays)
                THEN /\ _delays' = [_delays EXCEPT ![k + 1] = s]
                     /\ oob' = oob
                ELSE /\ oob' = oob \cup {k}
                     /\ _delays' = _delays
           ELSE /\ _delays' = Append(_delays, s)
                /\ oob' = oob
        /\ rec' = [rec EXCEPT ![k] = [w |-> TRUE, delay |-> s.delay, tc |-> s.tc]]
    /\ pc' = [pc EXCEPT ![t] = "idle"]
    /\ ev' = [op |-> "output", outcome |-> "store",
              port |-> SmactionReturn("store"), multiple |-> TRUE, exceeds |-> FALSE]
    /\ local' = [local EXCEPT ![t] = [@ EXCEPT !.usec = 0, !.tc = 0]]
    /\ UNCHANGED <<phase, conf, weight, _nd, claimed, result>>

\* -------------------------------------------------- statistics engine
\* numeric results: an integer, a quotient of doubles, a NaN, a square root
Num(n) == [kind |-> "num", num |-> n, den |-> 1]
Ratio(a, b) == [kind |-> "ratio", num |-> a, den |-> b]
NaN == [kind |-> "nan", num |-> 0, den |-> 1]
Sqrt(a, b) == [kind |-> "sqrt", num |-> a, den |-> b]

\* what a read of _delays[i] past the end of the storage may return
Wild == {Sample(0, 0), Sample(77, 0)}
OobIdx == {i \in 0..(_nd - 1) : i >= Len(_delays)}
\* the slots 0 .. _nd-1 as a reader finds them; g supplies the reads past the end
View(g) == [i \in 0..(_nd - 1) |-> IF i < Len(_delays) THEN _delays[i + 1] ELSE g[i]]

\* Delay::operator< (declared in timestampdiff.hh): samples compare by delay
DelayLess(a, b) == a.delay < b.delay

RECURSIVE MmmLoop(_, _, _, _, _)
MmmLoop(d, i, len, tc, acc) ==
    IF i >= len THEN acc
    ELSE IF tc > -1 /\ d[i].tc # tc THEN MmmLoop(d, i + 1, len, tc, acc)
    ELSE LET delay == d[i].delay IN
         MmmLoop(d, i + 1, len, tc,
                 [sum |-> acc.sum + delay,
                  min |-> IF delay < acc.min THEN delay ELSE acc.min,
                  max |-> IF delay > acc.max THEN delay ELSE acc.max,
                  n |-> acc.n + 1])

min_mean_max_range(d, len, min0, max0, begin, tc) ==
    LET a == MmmLoop(d, begin, len, tc, [sum |-> 0, min |-> min0, max |-> max0, n |-> 0]) IN
    [min |-> IF a.min = UINT_MAX THEN 0 ELSE a.min,
     max |-> a.max,
     mean |-> IF len = 0 THEN Num(0) ELSE Ratio(a.sum, len - begin)]

\* min_mean_max(min, mean, max, begin, tc) over the slots d[begin .. len-1];
\* min0 and max0 are the caller's values of the reference parameters
min_mean_max(d, len, min0, max0, begin, tc) ==
    LET a == MmmLoop(d, begin, len, tc, [sum |-> 0, min |-> min0, max |-> max0, n |-> 0]) IN
    [min |-> IF a.min = UINT_MAX THEN 0 ELSE a.min,
     max |-> a.max,
     mean |-> IF len = 0 THEN Num(0)
              ELSE IF a.n = 0 THEN NaN          \* 0.0 / 0.0
              ELSE Ratio(a.sum, a.n)]

RECURSIVE VarLoop(_, _, _, _)
\* the sum of (delay * den - num)^2, i.e. den^2 times the sum of (delay - mean)^2
VarLoop(d, i, len, mean) ==
    IF i >= len THEN 0
    ELSE (d[i].delay * mean.den - mean.num) * (d[i].delay * mean.den - mean.num)
         + VarLoop(d, i + 1, len, mean)

\* standard_deviation(mean, begin), for a mean that is a number num/den
standard_deviation(d, len, mean, begin) ==
    LET v == VarLoop(d, begin, len, mean) IN
    IF v = 0 THEN Num(0) ELSE Sqrt(v, mean.den * mean.den * len)

Range(begin, len) == begin..(len - 1)
Perms(S) == {p \in [S -> S] : \A a, b \in S : a # b => p[a] # p[b]}

NthElementWhole(d, begin, nth, len) ==
    {q \in {[i \in DOMAIN d |-> IF i \in Range(0, len) THEN d[p[i]] ELSE d[i]] :
                p \in Perms(Range(0, len))} :
        /\ \A i \in Range(0, len) : i < nth => ~DelayLess(q[nth], q[i])
        /\ \A i \in Range(0, len) : i > nth => ~DelayLess(q[i], q[nth])}

\* std::nth_element(first + begin, first + nth, first + len): every arrangement of
\* the range that the call may leave, the slots outside the range untouched
NthElement(d, begin, nth, len) ==
    {q \in {[i \in DOMAIN d |-> IF i \in Range(begin, len) THEN d[p[i]] ELSE d[i]] :
                p \in Perms(Range(begin, len))} :
        /\ \A i \in Range(begin, len) : i < nth => ~DelayLess(q[nth], q[i])
        /\ \A i \in Range(begin, len) : i > nth => ~DelayLess(q[i], q[nth])}

MinElement(d, begin, len) ==
    CHOOSE x \in {d[i] : i \in Range(begin, len)} :
        \A i \in Range(begin, len) : ~DelayLess(d[i], x)
MaxElement(d, begin, len) ==
    CHOOSE x \in {d[i] : i \in Range(begin, len)} :
        \A i \in Range(begin, len) : ~DelayLess(x, d[i])

PercentileIdxNoBegin(percent, begin, len) == (percent * (len - begin)) \div 100

\* the target index of percentile(): (percent * (len - begin)) / 100 + begin
PercentileIdx(percent, begin, len) == (percent * (len - begin)) \div 100 + begin

\* percentile(percent, begin): the set of [val, d] it may return and leave behind
percentile(d, len, percent, begin) ==
    IF len = 0 \/ begin >= len THEN {[val |-> 0, d |-> d]}
    ELSE LET idx == PercentileIdx(percent, begin, len) IN
         IF idx <= begin THEN {[val |-> MinElement(d, begin, len).delay, d |-> d]}
         ELSE IF idx >= len THEN {[val |-> MaxElement(d, begin, len).delay, d |-> d]}
         ELSE {[val |-> q[idx].delay, d |-> q] : q \in NthElement(d, begin, idx, len)}

\* last_value_seen()
last_value_seen(d, len) == IF len - 1 < 0 THEN 0 ELSE d[len - 1].delay

\* ------------------------------------------------------ query surface
\* one blank-separated word of the handler's text argument: a number that
\* parses (ok) with value v, or a word that does not parse
Word(n) == [ok |-> TRUE, v |-> n]
Junk == [ok |-> FALSE, v |-> 0]

\* the handlers registered with f_read_param, and those registered with f_read only
ParamOpts == {"avg", "avg_tc", "min", "max", "stddev", "perc00", "perc01", "perc05",
              "perc10", "perc25", "median", "perc75", "perc90", "perc95", "perc99",
              "perc100", "perc"}
PlainOpts == {"index", "last", "dump", "dump_list"}

\* the percentile the fixed-percentile handlers pass to percentile()
FixedPercent(opt) ==
    CASE opt = "perc01" -> 1 [] opt = "perc05" -> 5 [] opt = "perc10" -> 10
      [] opt = "perc25" -> 25 [] opt = "median" -> 50 [] opt = "perc75" -> 75
      [] opt = "perc90" -> 90 [] opt = "perc95" -> 95 [] opt = "perc99" -> 99

\* atoi(data.c_str()) assigned to the unsigned begin: a leading number, else 0;
\* a negative number wraps to a huge unsigned value
Atoi(data) ==
    IF data = <<>> \/ ~Head(data).ok THEN 0
    ELSE IF Head(data).v < 0 THEN UINT_MAX ELSE Head(data).v

\* what a call leaves: the return code, the data, the slots, and the values the
\* parse gave begin, perc and tc
Out(ret, val, text, d, begin, perc, tc) ==
    [ret |-> ret, kind |-> val.kind, num |-> val.num, den |-> val.den, text |-> text, d |-> d,
     begin |-> begin, perc |-> perc, tc |-> tc]
ErrorToken == [kind |-> "error", num |-> 0, den |-> 1]       \* data = "<error>"
EmptyData == [kind |-> "empty", num |-> 0, den |-> 1]        \* data = 0

StringLowDigit(n) == <<n % 10>>

RECURSIVE String(_)
\* String(n), and s << i, of an unsigned n: its decimal digits, most significant first
String(n) == IF n < 10 THEN <<n>> ELSE Append(String(n \div 10), n % 10)

\* the lines of dump ("<i>: <delay>") and dump_list ("<delay>", no index: <<>>)
DumpText(opt, d, len) ==
    [k \in 1..len |-> [index |-> IF opt = "dump" THEN String(k - 1) ELSE <<>>,
                       delay |-> String(d[k - 1].delay)]]

\* the switch of handler(): what each handler computes from begin, perc and tc
Dispatch(opt, d, len, begin, perc, tc) ==
    LET mmm == min_mean_max(d, len, UINT_MAX, 0, begin, -1) IN
    CASE opt \in {"min", "perc00"} -> {Out(0, Num(mmm.min), <<>>, d, begin, perc, tc)}
      [] opt = "avg" -> {Out(0, mmm.mean, <<>>, d, begin, perc, tc)}
      [] opt = "avg_tc" ->
            {Out(0, min_mean_max(d, len, UINT_MAX, 0, begin, tc).mean, <<>>, d, begin, perc, tc)}
      [] opt \in {"max", "perc100"} -> {Out(0, Num(mmm.max), <<>>, d, begin, perc, tc)}
      [] opt = "stddev" -> {Out(0, standard_deviation(d, len, Num(0), 0), <<>>, d, begin, perc, tc)}
      [] opt = "perc" ->
            {Out(0, Num(r.val), <<>>, r.d, begin, perc, tc) : r \in percentile(d, len, perc, begin)}
      [] opt = "last" -> {Out(0, Num(last_value_seen(d, len)), <<>>, d, begin, perc, tc)}
      [] opt = "index" -> {Out(0, Num(len - 1), <<>>, d, begin, perc, tc)}
      [] opt \in {"dump", "dump_list"} -> {Out(0, Num(0), DumpText(opt, d, len), d, begin, perc, tc)}
      [] OTHER ->
            {Out(0, Num(r.val), <<>>, r.d, begin, perc, tc) : r \in percentile(d, len, FixedPercent(opt), begin)}

ExtraOfLast(data) == data[Len(data)]

\* data.substring(0, pos): the word perc and avg_tc parse their own argument from
ExtraOf(data) == Head(data)
\* data.substring(pos): what is left for atoi
RestOf(data) == Tail(data)

OutOfRangeStrict(begin, len) == begin > len

\* begin >= current_vector_length
OutOfRange(begin, len) == begin >= len

\* handler(): the parse of the text argument, the range check, then the switch
Handler(opt, data, d, len) ==
    IF data = <<>> THEN Dispatch(opt, d, len, 0, 0, -1)
    ELSE IF opt \in {"perc", "avg_tc"} /\ ~ExtraOf(data).ok
         THEN {Out(-1, ErrorToken, <<>>, d, 0, 0, -1)}
    ELSE LET extra == IF opt \in {"perc", "avg_tc"} THEN ExtraOf(data).v ELSE 0
             rest == IF opt \in {"perc", "avg_tc"} THEN RestOf(data) ELSE data
             perc == IF opt = "perc" THEN extra ELSE 0
             tc == IF opt = "avg_tc" THEN extra ELSE -1
             begin == Atoi(rest) IN
         IF OutOfRange(begin, len) THEN {Out(1, EmptyData, <<>>, d, begin, perc, tc)}
         ELSE Dispatch(opt, d, len, begin, perc, tc)

\* a read handler call, run against the store as it then is
Query(opt, data) ==
    /\ phase = "running"
    /\ opt \in PlainOpts => data = <<>>
    /\ \E g \in [OobIdx -> Wild] : \E h \in Handler(opt, data, View(g), _nd) :
        /\ result' = [opt |-> opt, ret |-> h.ret, kind |-> h.kind, num |-> h.num,
                      den |-> h.den, text |-> h.text,
                      begin |-> h.begin, perc |-> h.perc, tc |-> h.tc, data |-> data]
        /\ _delays' = [k \in 1..Len(_delays) |-> IF k - 1 < _nd THEN h.d[k - 1] ELSE _delays[k]]
    /\ UNCHANGED <<phase, conf, weight, _nd, oob, pc, local, hist>>

\* the text arguments the model hands to the handlers
Words == {Word(0), Word(1), Word(50), Word(100), Junk}
Texts == {<<>>} \cup {<<a>> : a \in Words} \cup {<<a, b>> : a \in Words, b \in Words}
\* two words for the handlers that read two, at most one for the others
TextsFor(opt) == IF opt \in {"perc", "avg_tc"} THEN Texts ELSE {t \in Texts : Len(t) <= 1}
LiveOpts == {"min", "median", "perc", "last"}
LiveTexts == {<<>>, <<Word(1)>>, <<Word(50)>>}
\* handlers that only read the slots
ReadOpts == {"min", "last"}
ReadTexts == {<<>>}

\* ------------------------------------------------------ specification
Init ==
    /\ phase = "constructed"
    /\ _limit = 0 /\ _nano = FALSE /\ _sample = 1 /\ _max_delay_ms = 1000
    /\ _tc_offset = TC_OFFSET_OFF /\ _tc_mask = DEFAULT_TC_MASK
    /\ weight = 1
    /\ _nd = 0
    /\ _delays = <<>>
    /\ oob = {}
    /\ pc = [t \in Threads |-> "idle"]
    /\ local = [t \in Threads |-> [next_index |-> -1, usec |-> 0, tc |-> 0]]
    /\ rec = [k \in 0..MaxNd |-> NoSample]
    /\ claimed = [k \in 0..MaxNd |-> 0]
    /\ ev = NoEvent
    /\ result = NoResult

Ingest ==
    \/ \E t \in Threads : PushPass(t)
    \/ \E t \in Threads : PushClaim(t)
    \/ \E t \in Threads : Write(t)

\* the ingestion path alone, over every configuration
NextIngest ==
    \/ Configure
    \/ Initialize
    \/ Ingest

SpecIngest == Init /\ [][NextIngest]_vars

\* ingestion and read handlers running against each other
Next ==
    \/ ConfigureDefaults
    \/ Initialize
    \/ Ingest
    \/ \E opt \in LiveOpts, data \in LiveTexts : Query(opt, data)

Spec == Init /\ [][Next]_vars

\* ingestion running against the handlers that only read the slots
NextRead ==
    \/ ConfigureDefaults
    \/ Initialize
    \/ Ingest
    \/ \E opt \in ReadOpts, data \in ReadTexts : Query(opt, data)

SpecRead == Init /\ [][NextRead]_vars

\* the read handlers alone, over every store a single unbounded ingestion thread
\* can have filled with up to MaxNd samples (MAXDELAY 1 ms, TC_OFFSET 0, TC_MASK 1)
StatDelays == {5, 70}
StatSamples == {Sample(d, t) : d \in StatDelays, t \in {0, 1}}

InitStats ==
    /\ phase = "running"
    /\ _limit = 0 /\ _nano = FALSE /\ _sample = 1 /\ _max_delay_ms = 1
    /\ _tc_offset = 0 /\ _tc_mask = 1
    /\ weight = 1
    /\ \E n \in 0..MaxNd : \E f \in [1..n -> StatSamples] :
        /\ _nd = n
        /\ _delays = f
        /\ rec = [k \in 0..MaxNd |->
                    IF k < n THEN [w |-> TRUE, delay |-> f[k + 1].delay, tc |-> f[k + 1].tc]
                    ELSE NoSample]
        /\ claimed = [k \in 0..MaxNd |-> IF k < n THEN 1 ELSE 0]
    /\ oob = {}
    /\ pc = [t \in Threads |-> "idle"]
    /\ local = [t \in Threads |-> [next_index |-> -1, usec |-> 0, tc |-> 0]]
    /\ ev = NoEvent
    /\ result = NoResult

\* one handler call on the drawn store (every arrangement a call may leave is itself
\* a store InitStats draws)
NextStats ==
    /\ result = NoResult
    /\ \E opt \in ParamOpts \cup PlainOpts : \E data \in TextsFor(opt) : Query(opt, data)

SpecStats == InitStats /\ [][NextStats]_vars
\* ============================================================== claims
InFlight(k) == \E t \in Threads : pc[t] = "write" /\ local[t].next_index = k
Quiet == \A t \in Threads : pc[t] = "idle"
\* slot k holds the sample that the ingestion which claimed k wrote
SlotFinal(k) ==
    /\ rec[k].w
    /\ k < Len(_delays)
    /\ _delays[k + 1] = Sample(rec[k].delay, rec[k].tc)
\* the slots below _nd when all of them lie inside the storage
StoreView == View([k \in OobIdx |-> Sample(0, 0)])

\* C1: in Bounded mode the indices returned by fetch_and_add are pairwise distinct
\* and are exactly 0 .. _nd-1 (each returned once, none skipped), and a thread's
\* next claim is larger than its previous one.
C1_ClaimsDistinctDense ==
    [][/\ _limit' # 0 => \A k \in 0..MaxNd : claimed'[k] = IF k < _nd' THEN 1 ELSE 0
       /\ \A t \in Threads :
            (pc[t] = "idle" /\ pc'[t] = "write") => local'[t].next_index > local[t].next_index
      ]_vars
\* two threads hold distinct claimed slots at once, within the capacity
C1_Witness ==
    /\ _limit # 0 /\ _nd <= _limit
    /\ pc[1] = "write" /\ pc[2] = "write"
    /\ local[1].next_index # local[2].next_index

\* C2 (as stated): whatever smaction() decides, the packet leaves on output 0.
C2_AlwaysNormalOutput == ev.op = "output" => ev.port = 0
\* C2 (amended): a packet whose timestamp is found leaves on output 0 whether it was
\* skipped by sampling, discarded as an outlier or stored; a packet whose timestamp
\* is absent is handed to checked_output_push with port 1.
C2_PortByOutcome ==
    ev.op = "output" =>
        \/ ev.outcome = "absent" /\ ev.port = 1
        \/ ev.outcome \in {"skip", "outlier", "store"} /\ ev.port = 0
C2_Witness == ev.op = "output" /\ ev.outcome = "absent" /\ ev.port = 1

\* C3: a packet whose elapsed time exceeds MAXDELAY (in the configured unit) never
\* claims a slot: the counter does not advance for it.
C3_OutlierNeverClaims == ev.op = "claim" => ~ev.exceeds

\* C4: with SAMPLE = k > 1 a packet claims a slot only if its 64-bit sequence
\* number is a multiple of k.
C4_OnlyMultiplesStored == (ev.op = "claim" /\ _sample > 1) => ev.multiple

\* C5 (as stated): in Bounded mode, within the capacity, whatever length _nd a
\* reader observes, every slot below it holds its final sample, except possibly the
\* newest slot _nd-1 while its write is in flight.
C5_PublishedSlotsWritten ==
    (phase = "running" /\ _limit # 0 /\ _nd <= _limit) =>
        \A k \in 0..(_nd - 1) : SlotFinal(k) \/ (k = _nd - 1 /\ InFlight(k))
\* C5 (amended): in Bounded mode, within the capacity, with ingestion threads and
\* readers that do not reorder, every slot below the length _nd a reader observes
\* either holds its final sample or is a slot whose claiming ingestion has not yet
\* written it; such a slot may lie at any index below _nd, one per ingesting thread.
C5_SlotsFinalOrInFlight ==
    (phase = "running" /\ _limit # 0 /\ _nd <= _limit) =>
        /\ \A k \in 0..(_nd - 1) : SlotFinal(k) \/ InFlight(k)
        /\ Cardinality({k \in 0..(_nd - 1) : ~SlotFinal(k)}) <= weight
\* a min read has returned the preallocated 0 of slot 0, still in flight below the
\* written newest slot
C5_Witness ==
    /\ _limit # 0 /\ _nd = 2 /\ _nd <= _limit
    /\ InFlight(0) /\ ~SlotFinal(0) /\ SlotFinal(1)
    /\ result.opt = "min" /\ result.ret = 0 /\ result.begin = 0 /\ result.num = 0

\* how many of the first n values of the function f over 0..n-1 equal s
Count(s, f, n) == Cardinality({k \in 0..(n - 1) : f[k] = s})
Accepted == [k \in 0..(_nd - 1) |-> Sample(rec[k].delay, rec[k].tc)]

\* C6: in Bounded mode, within the capacity, once every in-flight ingestion has
\* completed, the stored samples are, as a multiset, the samples ingestion accepted,
\* whatever percentile queries ran in between.
C6_StoredIsAccepted ==
    (phase = "running" /\ _limit # 0 /\ _nd <= _limit /\ Quiet) =>
        \A k \in 0..(_nd - 1) :
            /\ rec[k].w
            /\ Count(Accepted[k], StoreView, _nd) = Count(Accepted[k], Accepted, _nd)

\* C7: initialize() fails exactly when more than one thread passes through and N is
\* not set, so a running Unbounded element never has two ingestions in progress.
C7_InitializeGuard ==
    /\ phase = "init_error" => (weight > 1 /\ _limit = 0)
    /\ phase = "running" => (weight = 1 \/ _limit # 0)
    /\ _limit = 0 => Cardinality({t \in Threads : pc[t] = "write"}) <= 1
C7_Witness == phase = "init_error" /\ weight = 2 /\ _limit = 0

\* C8: with one ingestion thread and no ingestion in progress, `last` returns the
\* delay of the most recently recorded sample, or 0 when none was recorded,
\* whatever queries ran in between.
C8_LastIsMostRecent ==
    (phase = "running" /\ weight = 1 /\ Quiet /\ OobIdx = {}) =>
        last_value_seen(StoreView, _nd) = IF _nd = 0 THEN 0 ELSE rec[_nd - 1].delay

\* the square of a numeric result, as a fraction
Squared(r) == IF r.kind = "sqrt" THEN [num |-> r.num, den |-> r.den]
              ELSE [num |-> r.num * r.num, den |-> r.den * r.den]
SameValue(a, b) ==
    /\ a.kind # "nan" /\ b.kind # "nan"
    /\ Squared(a).num * Squared(b).den = Squared(b).num * Squared(a).den

\* C9: the stddev handler returns the population standard deviation of the stored
\* delays about their mean.
C9_StddevAboutMean ==
    (result.opt = "stddev" /\ result.ret = 0 /\ _nd > 0) =>
        SameValue(result,
                  standard_deviation(StoreView, _nd,
                                     min_mean_max(StoreView, _nd, UINT_MAX, 0, 0, -1).mean, 0))

\* C10: when no sample of [begin, length) carries the class asked for, or the store
\* is empty, the min, max, avg and avg_tc handlers return 0.
C10_EmptyRangeZero ==
    (/\ result.opt \in {"min", "max", "avg", "avg_tc", "perc00", "perc100"}
     /\ result.ret = 0
     /\ \A k \in result.begin..(_nd - 1) : result.tc > -1 /\ StoreView[k].tc # result.tc)
    => (result.kind = "num" /\ result.num = 0)

\* the delays of the slots of S
DelaysOf(d, S) == {d[i].delay : i \in S}
MinOf(V) == CHOOSE v \in V : \A w \in V : v <= w
MaxOf(V) == CHOOSE v \in V : \A w \in V : v >= w
\* the delay at position j (from 0) of the ascending sort of the slots of S
SortedAt(d, S, j) ==
    CHOOSE v \in DelaysOf(d, S) :
        /\ Cardinality({i \in S : d[i].delay < v}) <= j
        /\ j < Cardinality({i \in S : d[i].delay <= v})
\* the handlers that answer a percentile, and the percentile each asks for
PercentileOpts == {"perc00", "perc01", "perc05", "perc10", "perc25", "median", "perc75",
                   "perc90", "perc95", "perc99", "perc100", "perc"}
PercentOf(r) ==
    IF r.opt = "perc" THEN r.perc
    ELSE IF r.opt = "perc00" THEN 0
    ELSE IF r.opt = "perc100" THEN 100
    ELSE FixedPercent(r.opt)
\* the percentile p of the slots [begin, len) of d, as the claim words it
PercentileOf(d, len, p, begin) ==
    IF len = 0 THEN 0
    ELSE LET idx == begin + (p * (len - begin)) \div 100
             S == begin..(len - 1) IN
         IF idx <= begin THEN MinOf(DelaysOf(d, S))
         ELSE IF idx >= len THEN MaxOf(DelaysOf(d, S))
         ELSE SortedAt(d, S, idx - begin)

\* C11: every percentile handler call that passes the range check returns, for its
\* percentile p and begin, the minimum delay of [begin, length) when
\* begin + floor(p*n/100) <= begin, the maximum when it is >= length, otherwise the
\* delay at that position of the ascending sort of [begin, length); 0 on an empty store.
C11_PercentileIsOrderStatistic ==
    [][(result'.opt \in PercentileOpts /\ result'.ret = 0) =>
            /\ result'.kind = "num"
            /\ result'.num = PercentileOf(StoreView, _nd, PercentOf(result'), result'.begin)
      ]_vars
\* perc 50 from begin 1 over three samples took the nth_element branch and returned 70
C11_Witness ==
    /\ result.opt = "perc" /\ result.data = <<Word(50), Word(1)>> /\ result.ret = 0
    /\ _nd = 3 /\ result.num = 70 /\ _delays[2].delay = 5 /\ _delays[3].delay = 70

RECURSIVE SumDelays(_, _)
SumDelays(d, S) ==
    IF S = {} THEN 0
    ELSE LET i == CHOOSE x \in S : TRUE IN d[i].delay + SumDelays(d, S \ {i})
\* the slots of [begin, len) that carry class tc; all of them when tc is -1
Matching(d, len, begin, tc) == {i \in begin..(len - 1) : tc = -1 \/ d[i].tc = tc}

\* C12: whenever at least one sample of [begin, length) matches the class filter (all
\* match when there is none), min_mean_max yields the minimum and maximum delay of
\* the matching samples, and the avg, avg_tc, min and max handlers (which leave the
\* slots as they found them) have returned the sum / count, minimum and maximum of
\* the matching samples: non-matching samples count nowhere.
C12_MinMeanMaxOverMatching ==
    /\ \A b \in 0..(_nd - 1), tc \in {-1, 0, 1} :
            LET M == Matching(StoreView, _nd, b, tc)
                r == min_mean_max(StoreView, _nd, UINT_MAX, 0, b, tc) IN
            M # {} => /\ r.min = MinOf(DelaysOf(StoreView, M))
                      /\ r.max = MaxOf(DelaysOf(StoreView, M))
    /\ LET M == Matching(StoreView, _nd, result.begin, result.tc) IN
       (result.opt \in {"min", "max", "avg", "avg_tc"} /\ result.ret = 0 /\ M # {}) =>
            CASE result.opt = "min" ->
                    result.kind = "num" /\ result.num = MinOf(DelaysOf(StoreView, M))
              [] result.opt = "max" ->
                    result.kind = "num" /\ result.num = MaxOf(DelaysOf(StoreView, M))
              [] OTHER ->
                    /\ result.kind = "ratio"
                    /\ result.num = SumDelays(StoreView, M)
                    /\ result.den = Cardinality(M)
\* avg_tc with filter 1 averaged one sample of a two-sample range
C12_Witness ==
    /\ result.opt = "avg_tc" /\ result.tc = 1 /\ result.ret = 0 /\ result.begin = 0
    /\ _nd = 2 /\ result.kind = "ratio" /\ result.den = 1 /\ result.num = 70
    /\ _delays[1] = Sample(5, 0) /\ _delays[2] = Sample(70, 1)

\* C13: a call of a parameterized handler whose begin is >= the length leaves the
\* slots and the counter as they were and is no error: with a text argument it
\* returns 1 and empty data, without one (the store is then empty) it returns 0.
C13_BeginPastLength ==
    [][(result'.opt \in ParamOpts /\ result'.ret # -1 /\ result'.begin >= _nd) =>
            /\ _delays' = _delays /\ _nd' = _nd
            /\ \/ result'.data # <<>> /\ result'.ret = 1 /\ result'.kind = "empty"
               \/ /\ result'.data = <<>> /\ result'.ret = 0
                  /\ result'.kind = "num" /\ result'.num = 0
      ]_vars
\* median asked from begin 50 of a store of three samples
C13_Witness ==
    /\ result.opt = "median" /\ result.data = <<Word(50)>> /\ result.begin = 50
    /\ result.ret = 1 /\ result.kind = "empty" /\ _nd = 3

\* C14: a call of a parameterized handler whose text holds a word that is not a
\* number returns the error token.
C14_UnparseableIsError ==
    (result.opt \in ParamOpts /\ \E k \in 1..Len(result.data) : ~result.data[k].ok)
        => (result.ret = -1 /\ result.kind = "error")

\* the extra value a call of perc or avg_tc ended up with
ExtraIn(r) == IF r.opt = "perc" THEN r.perc ELSE r.tc

\* C15 (as stated): perc and avg_tc take the first word of their text as begin and
\* the second as the percentile or the class.
C15_BeginThenExtra ==
    (/\ result.opt \in {"perc", "avg_tc"} /\ result.data # <<>>
     /\ \A k \in 1..Len(result.data) : result.data[k].ok)
    => /\ result.begin = result.data[1].v
       /\ Len(result.data) = 2 => ExtraIn(result) = result.data[2].v
\* C15 (amended): perc and avg_tc take the first word of their text as the
\* percentile or the class and what follows as begin (0 when nothing follows, or
\* when it is not a number); perc given "p b" answers percentile(p, b).
C15_ExtraThenBegin ==
    [][(/\ result'.opt \in {"perc", "avg_tc"} /\ result'.data # <<>>
        /\ result'.data[1].ok) =>
            /\ ExtraIn(result') = result'.data[1].v
            /\ result'.begin = IF Len(result'.data) = 2 /\ result'.data[2].ok
                                THEN result'.data[2].v ELSE 0
            /\ (result'.opt = "perc" /\ result'.ret = 0) =>
                    result'.num = PercentileOf(StoreView, _nd, result'.data[1].v, result'.begin)
      ]_vars
\* perc given "50 1": the 50th percentile of the slots from 1 on
C15_Witness ==
    /\ result.opt = "perc" /\ result.data = <<Word(50), Word(1)>>
    /\ result.perc = 50 /\ result.begin = 1 /\ result.ret = 0 /\ _nd = 2

RECURSIVE ParseDecimal(_)
\* a line of decimal digits read back as a number
ParseDecimal(digits) ==
    IF digits = <<>> THEN 0
    ELSE 10 * ParseDecimal(SubSeq(digits, 1, Len(digits) - 1)) + digits[Len(digits)]

\* C16: dump_list and dump emit one line per slot below the counter, in index order;
\* the delay of line k read back as a decimal number is the delay of slot k, dump
\* puts the index before it; neither changes the slots or the counter.
C16_DumpRoundTrip ==
    [][result'.opt \in {"dump", "dump_list"} =>
            /\ _delays' = _delays /\ _nd' = _nd
            /\ result'.ret = 0
            /\ Len(result'.text) = _nd
            /\ \A k \in 1.._nd :
                    /\ ParseDecimal(result'.text[k].delay) = _delays[k].delay
                    /\ IF result'.opt = "dump"
                       THEN /\ result'.text[k].index # <<>>
                            /\ ParseDecimal(result'.text[k].index) = k - 1
                       ELSE result'.text[k].index = <<>>
      ]_vars
\* dump_list has printed the delays 70 and 5 of a two-sample store
C16_Witness ==
    /\ result.opt = "dump_list" /\ _nd = 2
    /\ result.text = <<[index |-> <<>>, delay |-> <<7, 0>>], [index |-> <<>>, delay |-> <<5>>]>>
    /\ _delays[1].delay = 70 /\ _delays[2].delay = 5

\* C17: in Bounded mode a claim takes the index the counter holds and advances the
\* counter whatever the capacity N; the store then writes the slot when the index
\* is below N and writes outside the N preallocated slots, which stay N, when the
\* index is N or more.
C17_NoCapacityCheck ==
    [][_limit # 0 =>
         \A t \in Threads :
            /\ (pc[t] = "idle" /\ pc'[t] = "write") =>
                    local'[t].next_index = _nd /\ _nd' = _nd + 1
            /\ (pc[t] = "write" /\ pc'[t] = "idle") =>
                    LET k == local[t].next_index IN
                    /\ _nd' = _nd /\ Len(_delays') = _limit
                    /\ IF k < _limit
                       THEN /\ _delays'[k + 1] = Sample(local[t].usec, local[t].tc)
                            /\ oob' = oob
                       ELSE _delays' = _delays /\ k \in oob'
      ]_vars
\* N samples sit in the N slots and one more was written at index N
C17_Witness ==
    /\ _limit # 0 /\ _nd = _limit + 1 /\ Quiet
    /\ oob = {_limit}
    /\ \A k \in 0..(_limit - 1) : SlotFinal(k)

\* C18: in Unbounded mode a read handler never runs while the counter exceeds the
\* number of samples appended to _delays.
C18_ReadersSeeAppended ==
    [][(_limit = 0 /\ result' # result) => _nd <= Len(_delays)]_vars

\* how many slots of [begin, len) of the sequence f hold s
CountIn(s, f, begin, len) == Cardinality({k \in (begin + 1)..len : f[k] = s})

\* C19: a percentile handler call leaves the counter and every slot outside
\* [begin, length) as they were and the (delay, tc) pairs inside it the same as a
\* multiset; it moves no slot at all when it answers the minimum or the maximum, or
\* when it returns before the switch.
C19_PercentilePermutesRange ==
    [][result'.opt \in PercentileOpts =>
         LET begin == result'.begin
             idx == begin + (PercentOf(result') * (_nd - begin)) \div 100 IN
         /\ _nd' = _nd /\ Len(_delays') = Len(_delays)
         /\ \A k \in 1..Len(_delays) : (k - 1 < begin \/ k - 1 >= _nd) => _delays'[k] = _delays[k]
         /\ \A k \in (begin + 1).._nd :
                /\ CountIn(_delays[k], _delays', begin, _nd) = CountIn(_delays[k], _delays, begin, _nd)
                /\ CountIn(_delays'[k], _delays', begin, _nd) = CountIn(_delays'[k], _delays, begin, _nd)
         /\ (result'.ret # 0 \/ idx <= begin \/ idx >= _nd) => _delays' = _delays
      ]_vars
\* median has moved the samples of a three-sample store out of their order of arrival
C19_Witness ==
    /\ result.opt = "median" /\ result.ret = 0 /\ result.begin = 0 /\ _nd = 3
    /\ \E k \in 0..2 : _delays[k + 1] # Sample(rec[k].delay, rec[k].tc)

\* C20: in Bounded mode, within the capacity, the counter advances by one exactly
\* for a packet whose timestamp is present, whose sequence number is a multiple of
\* SAMPLE and whose elapsed time does not exceed MAXDELAY; a rejected packet changes
\* neither the counter nor a slot; once no ingestion is in progress each slot below
\* the counter holds the sample written by the ingestion that claimed it.
C20_CounterCountsAccepted ==
    [][(_limit # 0 /\ _nd' <= _limit) =>
         /\ _nd' # _nd =>
                _nd' = _nd + 1 /\ ev'.op = "claim" /\ ev'.multiple /\ ~ev'.exceeds
         /\ (ev'.op = "output" /\ ev'.outcome # "store") => UNCHANGED store
         /\ (phase = "running" /\ Quiet) => \A k \in 0..(_nd - 1) : SlotFinal(k)
      ]_vars
====
